---- MODULE Spec2Model ----
(***************************************************************************)
(* Model of manage-archive.py: a command dispatcher over four Glacier      *)
(* operations (list vaults, initiate inventory job, get job output,        *)
(* delete archive) plus the scrape of archive IDs out of archive.txt.      *)
(* One behaviour is one invocation of main().  Text is modelled as         *)
(* sequences of one-character strings.                                     *)
(***************************************************************************)
EXTENDS Integers, Sequences, FiniteSets

\* ---------------------------------------------------------------- bounds
NumVaults == 3      \* the service holds 0..NumVaults vaults
MaxLines == 2       \* archive.txt holds 0..MaxLines lines

\* ------------------------------------------------------- program constants
VALID_ACTIONS == <<"list", "start_inventory", "get_inventory", "delete">>
MaxVaultsDefault == 10          \* default of list_vaults(max_vaults=10)
MarkerSkip == 12                \* the "+ 12" applied to line.index(...)
Marker == <<"A","r","c","h","i","v","e"," ","I","D",":">>   \* 'Archive ID:'
FixedLogName == "archive.txt"   \* the name given to open()
NoMarker == 0                   \* vaults.get('Marker') is None
NoneStr == "None"               \* an argparse option that was not given
Whitespace == {" ", "\n", "\t"} \* what str.strip() removes

\* ------------------------------------------------------------ input sets
Actions == {"list", "start_inventory", "get_inventory", "delete", "bogus"}
FileNames == {NoneStr, "archive.txt", "other.log"}
Jobs == {NoneStr, "job-1"}
Missing == <<<<"ENOENT">>>>       \* the file does not exist

LinePlain    == <<"S"," ">> \o Marker \o <<" ","x","\n">>
LineGarbage  == <<"g","\n">>
LineNoSpace  == Marker \o <<"x","y","\n">>
LineTwice    == Marker \o <<" ","x"," ">> \o Marker \o <<" ","y","\n">>
LineBare     == Marker \o <<"\n">>
LinePadded   == Marker \o <<" "," ","y"," ","\n">>
LineOther    == Marker \o <<" ","z","\n">>
Lines == {LinePlain, LineGarbage, LineNoSpace, LineTwice, LineBare, LinePadded}

RECURSIVE SeqsUpTo(_, _)
SeqsUpTo(S, n) ==
    IF n = 0 THEN {<<>>}
    ELSE LET shorter == SeqsUpTo(S, n - 1)
         IN shorter \cup {Append(s, x) : s \in {t \in shorter : Len(t) = n - 1}, x \in S}

FileContents == SeqsUpTo(Lines, MaxLines)

Vault(i) == [VaultName |-> i, NumberOfArchives |-> i, SizeInBytes |-> 100 * i]

\* ------------------------------------------------------------- the state
VARIABLES
    args,         \* parsed command line: action, filename, job
    fs,           \* the files on disk, by name
    svcVaults,    \* the vaults held by the service, in its order
    pc,           \* position in main()
    vaults,       \* local 'vaults' of the list branch
    marker,       \* local 'marker' of the list branch
    archive_ids,  \* local 'archive_ids'
    fd,           \* the file object of the with-block: name, state, pos
    opened,       \* names passed to open(), in order
    calls,        \* remote calls issued, in order
    console,      \* what console.print was given, in order
    cursor,       \* how many archive_ids the deletion loop has consumed
    crash         \* the exception that left main(), or "none"

vars == <<args, fs, svcVaults, pc, vaults, marker, archive_ids, fd, opened,
          calls, console, cursor, crash>>

Min(a, b) == IF a < b THEN a ELSE b

\* ------------------------------------------------------ text operations
\* str.index: 1-based position of the first occurrence of sub, 0 if none
\* (Python raises ValueError there).
IndexOf(line, sub) ==
    LET hits == {p \in 1..(Len(line) - Len(sub) + 1) :
                    SubSeq(line, p, p + Len(sub) - 1) = sub}
    IN IF hits = {} THEN 0 ELSE CHOOSE p \in hits : \A q \in hits : p <= q

\* str.strip
Strip(s) ==
    LET keep == {p \in 1..Len(s) : s[p] \notin Whitespace}
    IN IF keep = {} THEN <<>>
       ELSE LET lo == CHOOSE p \in keep : \A q \in keep : p <= q
                hi == CHOOSE p \in keep : \A q \in keep : p >= q
            IN SubSeq(s, lo, hi)

\* line[line.index('Archive ID:') + 12:].strip(), appended to ids;
\* ValueError is passed over.
ExtractKey(ids, line) ==
    LET p == IndexOf(line, Marker)
    IN IF p = 0 THEN ids
       ELSE Append(ids, Strip(SubSeq(line, p + MarkerSkip, Len(line))))

\* ------------------------------------------------------ remote service
\* glacier.list_vaults(limit, marker): k vaults from the cursor on, at most
\* limit of them, and a Marker exactly when vaults remain after the page.
GlacierListVaults(limit, from, k) ==
    LET n == Min(Min(k, limit), Len(svcVaults) - from + 1)
    IN [VaultList |-> SubSeq(svcVaults, from, from + n - 1),
        Marker |-> IF from + n <= Len(svcVaults) THEN from + n ELSE NoMarker]

\* ---------------------------------------------------------- operations
\* list_vaults that drops iter_marker and always asks for the first page
list_vaults_first_page(max_vaults, iter_marker, err, k) ==
    IF err # "none"
    THEN [raised |-> err, vaults |-> <<>>, marker |-> NoMarker]
    ELSE LET r == GlacierListVaults(max_vaults, 1, k)
         IN [raised |-> "none", vaults |-> r.VaultList, marker |-> r.Marker]

\* list_vaults that catches the error and returns an empty page, no marker
list_vaults_swallow(max_vaults, iter_marker, err, k) ==
    IF err # "none"
    THEN [raised |-> "none", vaults |-> <<>>, marker |-> NoMarker]
    ELSE LET r == IF iter_marker = NoMarker
                  THEN GlacierListVaults(max_vaults, 1, k)
                  ELSE GlacierListVaults(max_vaults, iter_marker, k)
         IN [raised |-> "none", vaults |-> r.VaultList, marker |-> r.Marker]

\* list_vaults: no handler around the remote call.
list_vaults(max_vaults, iter_marker, err, k) ==
    IF err # "none"
    THEN [raised |-> err, vaults |-> <<>>, marker |-> NoMarker]
    ELSE LET r == IF iter_marker = NoMarker
                  THEN GlacierListVaults(max_vaults, 1, k)
                  ELSE GlacierListVaults(max_vaults, iter_marker, k)
         IN [raised |-> "none", vaults |-> r.VaultList, marker |-> r.Marker]

\* retrieve_inventory: ClientError is logged and None returned.
retrieve_inventory(err) ==
    IF err = "ClientError"
    THEN [raised |-> "none", isNone |-> TRUE]
    ELSE [raised |-> "none", isNone |-> FALSE]

\* retrieve_inventory_results: ClientError is logged and None returned;
\* json.loads sits outside the handler.
retrieve_inventory_results(err) ==
    IF err = "ClientError" THEN [raised |-> "none", isNone |-> TRUE]
    ELSE IF err = "malformed" THEN [raised |-> "JSONDecodeError", isNone |-> TRUE]
    ELSE [raised |-> "none", isNone |-> FALSE]

\* delete_archive without the except clause
delete_archive_unguarded(err) ==
    IF err = "ClientError"
    THEN [raised |-> "ClientError", success |-> FALSE]
    ELSE [raised |-> "none", success |-> TRUE]

\* delete_archive: ClientError is logged and False returned.
delete_archive(err) ==
    IF err = "ClientError"
    THEN [raised |-> "none", success |-> FALSE]
    ELSE [raised |-> "none", success |-> TRUE]

\* an if/elif chain whose last branch is list instead of the error message
DispatchDefaultList(action) ==
    IF action = "start_inventory" THEN "start_inventory"
    ELSE IF action = "get_inventory" THEN "get_inventory"
    ELSE IF action = "delete" THEN "delete"
    ELSE "list"

\* an if/elif chain where get_inventory falls into the start_inventory branch
DispatchInventoryMixed(action) ==
    IF action = "list" THEN "list"
    ELSE IF action \in {"start_inventory", "get_inventory"} THEN "start_inventory"
    ELSE IF action = "delete" THEN "delete"
    ELSE "unrecognized"

\* the if/elif chain of main()
Dispatch(action) ==
    IF action = "list" THEN "list"
    ELSE IF action = "start_inventory" THEN "start_inventory"
    ELSE IF action = "get_inventory" THEN "get_inventory"
    ELSE IF action = "delete" THEN "delete"
    ELSE "unrecognized"

\* the job test left out
JobGivenAlways(job) == TRUE

\* 'if args.job is not None'
JobGiven(job) == job # NoneStr

\* open() given the -f argument when there is one
LogFileNameFromArgs(filename) == IF filename = NoneStr THEN FixedLogName ELSE filename

\* the name main() passes to open()
LogFileName(filename) == FixedLogName

\* a plain open() that is never closed
WithExitLeavesOpen(f) == f

\* leaving the with-block closes the file
WithExit(f) == [f EXCEPT !.state = "closed"]

\* 'if marker is None: break'
LoopEnds(m) == m = NoMarker

\* one remote call: the operation, what it was given (marker, archive id),
\* how the service answered (err) and what came back (next marker, success)
Call(op, m, id, err, next, ok) ==
    [op |-> op, marker |-> m, id |-> id, err |-> err, next |-> next, ok |-> ok]

ConsolePrint(msg, data) == [msg |-> msg, data |-> data]

Raise(exc) == /\ crash' = exc
              /\ pc' = "crashed"

\* ------------------------------------------------------------------ Init
Init ==
    /\ args \in [action : Actions, filename : FileNames, job : Jobs]
    /\ \E content \in FileContents \cup {Missing} :
          fs = [n \in {"archive.txt", "other.log"} |->
                   IF n = "archive.txt" THEN content ELSE <<LineOther>>]
    /\ \E n \in 0..NumVaults : svcVaults = [i \in 1..n |-> Vault(i)]
    /\ pc = "start"
    /\ vaults = <<>>
    /\ marker = NoMarker
    /\ archive_ids = <<>>
    /\ fd = [name |-> NoneStr, state |-> "none", pos |-> 0]
    /\ opened = <<>>
    /\ calls = <<>>
    /\ console = <<>>
    /\ cursor = 0
    /\ crash = "none"

\* --------------------------------------------------------------- actions
\* the if/elif chain picks the branch
Start ==
    /\ pc = "start"
    /\ pc' = Dispatch(args.action)
    /\ UNCHANGED <<args, fs, svcVaults, vaults, marker, archive_ids, fd,
                   opened, calls, console, cursor, crash>>

\* vaults, marker = list_vaults(...); the first call is followed by the
\* two header lines
ListCall ==
    /\ pc = "list"
    /\ \E err \in {"none", "ClientError"}, k \in 1..NumVaults :
          LET r == list_vaults(MaxVaultsDefault, marker, err, k)
          IN /\ calls' = Append(calls, Call("list_vaults", marker, <<>>, err,
                                            r.marker, r.raised = "none"))
             /\ IF r.raised # "none"
                THEN /\ Raise(r.raised)
                     /\ UNCHANGED <<vaults, marker, console>>
                ELSE /\ vaults' = r.vaults
                     /\ marker' = r.marker
                     /\ console' = IF calls = <<>>
                                   THEN console \o <<ConsolePrint("header", <<>>),
                                                     ConsolePrint("rule", <<>>)>>
                                   ELSE console
                     /\ pc' = "list_print"
                     /\ UNCHANGED crash
    /\ UNCHANGED <<args, fs, svcVaults, archive_ids, fd, opened, cursor>>

\* the body of 'while True' up to the next list_vaults call
ListPrint ==
    /\ pc = "list_print"
    /\ console' = console \o [i \in 1..Len(vaults) |-> ConsolePrint("vault", vaults[i])]
    /\ pc' = IF LoopEnds(marker) THEN "done" ELSE "list"
    /\ UNCHANGED <<args, fs, svcVaults, vaults, marker, archive_ids, fd,
                   opened, calls, cursor, crash>>

StartInventory ==
    /\ pc = "start_inventory"
    /\ \E err \in {"none", "ClientError"} :
          LET r == retrieve_inventory(err)
          IN /\ calls' = Append(calls, Call("initiate_job", NoMarker, <<>>, err,
                                            NoMarker, ~r.isNone))
             /\ IF r.raised # "none"
                THEN Raise(r.raised) /\ UNCHANGED console
                ELSE /\ console' = IF r.isNone THEN console
                                   ELSE console \o <<ConsolePrint("initiated", <<>>),
                                                     ConsolePrint("job_id", <<>>)>>
                     /\ pc' = "done"
                     /\ UNCHANGED crash
    /\ UNCHANGED <<args, fs, svcVaults, vaults, marker, archive_ids, fd,
                   opened, cursor>>

GetInventory ==
    /\ pc = "get_inventory"
    /\ JobGiven(args.job)
    /\ \E err \in {"none", "ClientError", "malformed"} :
          LET r == retrieve_inventory_results(err)
          IN /\ calls' = Append(calls, Call("get_job_output", NoMarker, <<>>, err,
                                            NoMarker, ~r.isNone))
             /\ IF r.raised # "none"
                THEN Raise(r.raised) /\ UNCHANGED console
                ELSE /\ console' = IF r.isNone THEN console
                                   ELSE console \o <<ConsolePrint("vault_arn", <<>>),
                                                     ConsolePrint("archive", <<>>)>>
                     /\ pc' = "done"
                     /\ UNCHANGED crash
    /\ UNCHANGED <<args, fs, svcVaults, vaults, marker, archive_ids, fd,
                   opened, cursor>>

JobRequired ==
    /\ pc = "get_inventory"
    /\ ~JobGiven(args.job)
    /\ console' = Append(console, ConsolePrint("job_required", <<>>))
    /\ pc' = "done"
    /\ UNCHANGED <<args, fs, svcVaults, vaults, marker, archive_ids, fd,
                   opened, calls, cursor, crash>>

\* with open('archive.txt') as fd
OpenFile ==
    /\ pc = "delete"
    /\ LET name == LogFileName(args.filename)
       IN /\ opened' = Append(opened, name)
          /\ IF fs[name] = Missing
             THEN Raise("FileNotFoundError") /\ UNCHANGED fd
             ELSE /\ fd' = [name |-> name, state |-> "open", pos |-> 0]
                  /\ pc' = "read"
                  /\ UNCHANGED crash
    /\ UNCHANGED <<args, fs, svcVaults, vaults, marker, archive_ids, calls,
                   console, cursor>>

\* one turn of 'for line in fd'
ReadLine ==
    /\ pc = "read"
    /\ fd.pos < Len(fs[fd.name])
    /\ archive_ids' = ExtractKey(archive_ids, fs[fd.name][fd.pos + 1])
    /\ fd' = [fd EXCEPT !.pos = fd.pos + 1]
    /\ UNCHANGED <<args, fs, svcVaults, pc, vaults, marker, opened, calls,
                   console, cursor, crash>>

\* the read fails; the exception leaves the with-block
ReadError ==
    /\ pc = "read"
    /\ fd.pos < Len(fs[fd.name])
    /\ fd' = WithExit(fd)
    /\ Raise("OSError")
    /\ UNCHANGED <<args, fs, svcVaults, vaults, marker, archive_ids, opened,
                   calls, console, cursor>>

\* end of file: the with-block is left
CloseFile ==
    /\ pc = "read"
    /\ fd.pos = Len(fs[fd.name])
    /\ fd' = WithExit(fd)
    /\ pc' = "delete_loop"
    /\ UNCHANGED <<args, fs, svcVaults, vaults, marker, archive_ids, opened,
                   calls, console, cursor, crash>>

\* one turn of 'for archive_id in archive_ids'
DeleteNext ==
    /\ pc = "delete_loop"
    /\ cursor < Len(archive_ids)
    /\ \E err \in {"none", "ClientError"} :
          LET id == archive_ids[cursor + 1]
              r == delete_archive(err)
          IN /\ calls' = Append(calls, Call("delete_archive", NoMarker, id, err,
                                            NoMarker, r.success))
             /\ IF r.raised # "none"
                THEN Raise(r.raised) /\ UNCHANGED <<console, cursor>>
                ELSE /\ console' = IF r.success
                                   THEN Append(console, ConsolePrint("deleted", id))
                                   ELSE console
                     /\ cursor' = cursor + 1
                     /\ UNCHANGED <<pc, crash>>
    /\ UNCHANGED <<args, fs, svcVaults, vaults, marker, archive_ids, fd, opened>>

DeleteDone ==
    /\ pc = "delete_loop"
    /\ cursor = Len(archive_ids)
    /\ pc' = "done"
    /\ UNCHANGED <<args, fs, svcVaults, vaults, marker, archive_ids, fd,
                   opened, calls, console, cursor, crash>>

\* the final else
Unrecognized ==
    /\ pc = "unrecognized"
    /\ console' = console \o <<ConsolePrint("not_recognized", args.action),
                                ConsolePrint("valid_actions", VALID_ACTIONS)>>
    /\ pc' = "done"
    /\ UNCHANGED <<args, fs, svcVaults, vaults, marker, archive_ids, fd,
                   opened, calls, cursor, crash>>

Next ==
    \/ Start
    \/ ListCall
    \/ ListPrint
    \/ StartInventory
    \/ GetInventory
    \/ JobRequired
    \/ OpenFile
    \/ ReadLine
    \/ ReadError
    \/ CloseFile
    \/ DeleteNext
    \/ DeleteDone
    \/ Unrecognized

Spec == Init /\ [][Next]_vars

TypeOK ==
    /\ pc \in {"start", "list", "list_print", "start_inventory", "get_inventory",
                "delete", "read", "delete_loop", "unrecognized", "done", "crashed"}
    /\ crash \in {"none", "ClientError", "JSONDecodeError", "FileNotFoundError", "OSError"}
    /\ fd.state \in {"none", "open", "closed"}
    /\ cursor \in 0..Len(archive_ids)

\* --------------------------------------------------------------- helpers
IsPrefix(s, t) == Len(s) <= Len(t) /\ s = SubSeq(t, 1, Len(s))

PrintedVaults ==
    LET lines == SelectSeq(console, LAMBDA e : e.msg = "vault")
    IN [i \in 1..Len(lines) |-> lines[i].data]

DeletedIds == [i \in 1..Len(calls) |-> calls[i].id]

RECURSIVE ExtractAll(_)
ExtractAll(content) ==
    IF content = <<>> THEN <<>>
    ELSE ExtractKey(ExtractAll(SubSeq(content, 1, Len(content) - 1)),
                    content[Len(content)])

\* the extraction as the specification words it: the whole remainder of the
\* line after the marker, stripped
RECURSIVE RemainderIds(_)
RemainderIds(content) ==
    IF content = <<>> THEN <<>>
    ELSE LET line == content[Len(content)]
             p == IndexOf(line, Marker)
             before == RemainderIds(SubSeq(content, 1, Len(content) - 1))
         IN IF p = 0 THEN before
            ELSE Append(before, Strip(SubSeq(line, p + Len(Marker), Len(line))))

KindOf(action) ==
    IF action = "list" THEN "list_vaults"
    ELSE IF action = "start_inventory" THEN "initiate_job"
    ELSE IF action = "get_inventory" THEN "get_job_output"
    ELSE IF action = "delete" THEN "delete_archive"
    ELSE "none"

BranchPcs(action) ==
    IF action = "list" THEN {"list", "list_print"}
    ELSE IF action = "start_inventory" THEN {"start_inventory"}
    ELSE IF action = "get_inventory" THEN {"get_inventory"}
    ELSE IF action = "delete" THEN {"delete", "read", "delete_loop"}
    ELSE {"unrecognized"}

IsValidAction(a) == \E i \in 1..Len(VALID_ACTIONS) : VALID_ACTIONS[i] = a

\* ---------------------------------------------------------------- claims

\* C1: list prints every vault exactly once in the service's order: what is
\* printed is always a prefix of the service's vaults and is all of them at
\* the end; the first call carries no marker, every later call the marker
\* returned by the call before it; the first response without a marker is
\* the last call made.
C1_ListPaginates ==
    args.action = "list" =>
        /\ IsPrefix(PrintedVaults, svcVaults)
        /\ (pc = "done" => PrintedVaults = svcVaults)
        /\ \A i \in 1..Len(calls) :
              /\ calls[i].marker = (IF i = 1 THEN NoMarker ELSE calls[i - 1].next)
              /\ (calls[i].err = "none" /\ calls[i].next = NoMarker)
                    => (i = Len(calls) /\ pc \in {"list_print", "done"})
        /\ (pc = "done" => calls # <<>> /\ calls[Len(calls)].next = NoMarker)

C1_Witness ==
    /\ args.action = "list" /\ pc = "done"
    /\ Len(calls) = 3 /\ Len(svcVaults) = 3
    /\ PrintedVaults = svcVaults

\* C2: delete_archive is called for the extracted IDs in their order, one
\* call each, a rejected call returns false, and no call's outcome ends the
\* loop: after any call the program is still in the loop or finished, and
\* it finishes only when every ID has had its call.
C2_DeleteEveryId ==
    args.action = "delete" =>
        /\ IsPrefix(DeletedIds, archive_ids)
        /\ \A i \in 1..Len(calls) :
              /\ calls[i].op = "delete_archive"
              /\ calls[i].ok = (calls[i].err = "none")
        /\ (calls # <<>> => pc \in {"delete_loop", "done"})
        /\ (pc = "delete_loop" => Len(calls) = cursor)
        /\ (pc = "done" => DeletedIds = archive_ids)

C2_Witness ==
    /\ args.action = "delete" /\ pc = "done"
    /\ Len(calls) = 2
    /\ calls[1].err = "ClientError" /\ ~calls[1].ok
    /\ calls[2].err = "none"

\* C3: no remote-call failure leaves an operation as an exception: main()
\* never ends in a ClientError.
C3_NoRemoteErrorEscapes == crash # "ClientError"

\* C4: in list, an error on a page is never taken for the end of the list:
\* the loop ends normally only when every call succeeded and the last
\* response had no marker, and a failed call always ends the run with that
\* error instead.
C4_ErrorIsNotEndOfList ==
    args.action = "list" =>
        /\ (pc = "done" =>
              /\ calls # <<>>
              /\ \A i \in 1..Len(calls) : calls[i].err = "none"
              /\ calls[Len(calls)].next = NoMarker)
        /\ \A i \in 1..Len(calls) :
              calls[i].err # "none" =>
                  /\ i = Len(calls)
                  /\ pc = "crashed"
                  /\ crash = calls[i].err

C4_Witness ==
    /\ args.action = "list" /\ pc = "crashed"
    /\ Len(calls) = 2
    /\ calls[1].err = "none" /\ calls[1].next # NoMarker
    /\ calls[2].err = "ClientError"
    /\ Len(PrintedVaults) < Len(svcVaults)

\* C5: the IDs extracted from the lines read so far are, line by line, the
\* whole remainder after the marker, stripped.
C5_ExtractsWholeRemainder ==
    (args.action = "delete" /\ fd.state # "none") =>
        archive_ids = RemainderIds(SubSeq(fs[fd.name], 1, fd.pos))

\* C6: get_inventory without a job ID prints the job-ID-required message,
\* makes no remote call and ends normally.
C6_JobRequiredNoCall ==
    (args.action = "get_inventory" /\ args.job = NoneStr) =>
        /\ calls = <<>>
        /\ opened = <<>>
        /\ crash = "none" /\ pc # "crashed"
        /\ pc \in {"start", "get_inventory", "done"}
        /\ console = (IF pc = "done"
                      THEN <<ConsolePrint("job_required", <<>>)>> ELSE <<>>)

C6_Witness ==
    /\ args.action = "get_inventory" /\ args.job = NoneStr
    /\ pc = "done"
    /\ console = <<ConsolePrint("job_required", <<>>)>>

\* C7: an action outside the four valid ones prints the error naming the
\* valid actions, makes no remote call, opens no file and ends normally.
C7_UnknownActionNoEffect ==
    ~IsValidAction(args.action) =>
        /\ calls = <<>>
        /\ opened = <<>> /\ fd.state = "none"
        /\ crash = "none" /\ pc # "crashed"
        /\ (pc = "done" =>
              /\ Len(console) = 2
              /\ console[1] = ConsolePrint("not_recognized", args.action)
              /\ console[2].msg = "valid_actions"
              /\ console[2].data = <<"list", "start_inventory", "get_inventory", "delete">>)

C7_Witness ==
    /\ args.action = "bogus" /\ pc = "done"
    /\ Len(console) = 2
    /\ calls = <<>>

\* C8: an invocation is in the one branch its ACTION names, every remote
\* call is of that branch's kind, start_inventory makes exactly one call,
\* get_inventory at most one.
C8_OneBranchOneKind ==
    /\ pc \in {"start", "done", "crashed"} \cup BranchPcs(args.action)
    /\ \A i \in 1..Len(calls) : calls[i].op = KindOf(args.action)
    /\ (args.action = "start_inventory" =>
          /\ Len(calls) <= 1
          /\ (pc = "done" => Len(calls) = 1))
    /\ (args.action = "get_inventory" => Len(calls) <= 1)
    /\ (args.action # "delete" => opened = <<>>)

C8_Witness ==
    /\ args.action = "get_inventory" /\ pc = "done"
    /\ Len(calls) = 1
    /\ calls[1].op = "get_job_output" /\ calls[1].err = "ClientError"

C10_ReadBeforeDelete ==
    args.action = "delete" =>
        /\ (calls # <<>> =>
              /\ fd.state = "closed"
              /\ fd.pos = Len(fs[fd.name])
              /\ archive_ids = ExtractAll(fs[fd.name]))
        /\ (pc = "delete_loop" => fd.state = "closed")
        /\ (crash \in {"FileNotFoundError", "OSError"} => calls = <<>>)

C10_Witness ==
    /\ args.action = "delete" /\ pc = "done"
    /\ fd.state = "closed"
    /\ Len(calls) = 2

====
